---------------------------- MODULE Spec2Model ----------------------------
(***************************************************************************)
(* OS-DASHBOARD: the dashboard client (src/public/script.js lines 1-140)   *)
(* and the Express server whose handlers follow it in the same file: the   *)
(* "fixed, robust version" (lines 503-690, called build "robust" here)     *)
(* and, for the battery helper getBatteryInfo and the /api/stats handler   *)
(* that uses it, the "improved version" (lines 303-500, build "improved"). *)
(* GET /api/resource is the handler of src/server.cjs.                     *)
(*                                                                         *)
(* JavaScript values are records [t, v]: t is the kind of value and v the  *)
(* number it carries.  Numbers are integers in thousandths (12.345 is      *)
(* 12345), so that toFixed(2) and Math.round(x*100)/100 are real           *)
(* roundings.  Time (Date.now()) is counted in minutes.                    *)
(***************************************************************************)
EXTENDS Integers, Sequences, FiniteSets, TLC

(***************************************************************************)
(* Bounds of the model.                                                    *)
(***************************************************************************)
StartTime == 31
MaxAdvances == 2
MaxPolls == 2
MaxTicks == 3
MaxProcs == 6

(***************************************************************************)
(* JavaScript values.                                                      *)
(***************************************************************************)
Undef == [t |-> "undefined", v |-> 0]
Null == [t |-> "null", v |-> 0]
NaN == [t |-> "nan", v |-> 0]
Infinity == [t |-> "inf", v |-> 0]
Num(n) == [t |-> "number", v |-> n]
\* a string holding the decimal text of the number n
NumStr(n) == [t |-> "numstr", v |-> n]
\* a string that is not the text of a number; v tells the strings apart
Str(id) == [t |-> "string", v |-> id]
StrNA == Str(0)
StrAbc == Str(1)
\* a whole percentage as a number
Pct(n) == Num(n * 1000)

\* typeof x === 'number'
IsTypeofNumber(x) == x.t \in {"number", "nan", "inf"}
\* x is null or undefined (what ?? and ?. test)
IsNullish(x) == x.t \in {"undefined", "null"}
\* a ?? b
Coalesce(a, b) == IF IsNullish(a) THEN b ELSE a
\* Number(x)
JsNumber(x) ==
  CASE x.t = "number" -> x
    [] x.t = "numstr" -> Num(x.v)
    [] x.t = "null" -> Num(0)
    [] x.t = "inf" -> Infinity
    [] OTHER -> NaN
\* Number.isFinite(x), x already a number
IsFinite(x) == x.t = "number"
\* x is falsy, x a number
IsFalsyNumber(x) == x.t = "nan" \/ (x.t = "number" /\ x.v = 0)
\* x is truthy
IsTruthy(x) ==
  CASE x.t \in {"undefined", "null", "nan"} -> FALSE
    [] x.t = "number" -> x.v # 0
    [] OTHER -> TRUE
\* a >= b and a <= b on values converted by ToNumber: false when either is NaN
JsGe(a, b) ==
  LET x == JsNumber(a)
      y == JsNumber(b)
  IN  /\ x.t # "nan" /\ y.t # "nan"
      /\ \/ x.t = "inf"
         \/ (x.t = "number" /\ y.t = "number" /\ x.v >= y.v)
JsLe(a, b) ==
  LET x == JsNumber(a)
      y == JsNumber(b)
  IN  /\ x.t # "nan" /\ y.t # "nan"
      /\ \/ y.t = "inf"
         \/ (x.t = "number" /\ y.t = "number" /\ x.v <= y.v)
\* Number(x.toFixed(2)): x rounded to hundredths (x >= 0, not an exact half)
ToFixed2(x) ==
  IF x.t = "number" THEN Num(((x.v + 5) \div 10) * 10) ELSE x
\* Math.round(x * 100) / 100
Round2(x) ==
  IF x.t = "number" THEN Num(((x.v + 5) \div 10) * 10) ELSE x
\* what JSON.stringify and JSON.parse make of a number field
JsonNumber(x) == IF x.t \in {"nan", "inf"} THEN Null ELSE x

VARIABLES
  thresholds,      \* server: let thresholds = { cpu, ram, battery }
  thRes,           \* the last POST /api/thresholds exchange
  build,           \* which server version of the file is deployed
  machine,         \* whether the host has a battery sensor
  sensors,         \* what the host's sensors report at this moment
  statsRes,        \* the last GET /api/stats response
  snapRes,         \* the last GET /api/snapshot response
  resourceRes,     \* the last GET /api/resource response (src/server.cjs)
  hadFailure,      \* some earlier /api/stats request answered 500
  clock,           \* the client's Date.now(), in minutes
  nAdvances,       \* how often the model has let time pass
  lastAlert,       \* client: let lastAlert = {cpu, ram, battery}
  calls,           \* checkAlerts calls suspended at await fetch('/api/thresholds')
  nPolls,          \* fetchStats runs so far
  evals,           \* the alert evaluations completed so far, in order
  logFile,         \* logs/resource.log: NoFile or its characters
  pendingAppends,  \* fs.appendFile calls not yet completed
  appended,        \* the lines whose append completed, in order
  nTicks,          \* cron ticks so far
  opErrors,        \* the console.error reports of the cron path, in order
  crashed,         \* an error has left the tick handler or the append callback
  logsRes,         \* the last GET /api/logs exchange
  procList,        \* what si.processes() lists
  procRes          \* the last GET /api/processes response

thVars == <<thresholds, thRes>>
envVars == <<build, machine>>
pollVars == <<sensors, statsRes, snapRes, resourceRes, hadFailure>>
alertVars == <<clock, nAdvances, lastAlert, calls, nPolls, evals>>
logVars == <<logFile, pendingAppends, appended, nTicks, opErrors, crashed, logsRes>>
procVars == <<procList, procRes>>
vars == <<thVars, envVars, pollVars, alertVars, logVars, procVars>>

None == [status |-> 0]

(***************************************************************************)
(* Thresholds: GET and POST /api/thresholds.                               *)
(***************************************************************************)
DefaultThresholds == [cpu |-> Pct(90), ram |-> Pct(85), battery |-> Pct(15)]

\* the values a field of a JSON request body can take (Undef: field missing)
BodyValues == {Undef, Null, StrAbc, NumStr(95000), Pct(95), Pct(70)}
Bodies == [cpu : BodyValues, ram : BodyValues, battery : BodyValues]

NoBody == [cpu |-> Undef, ram |-> Undef, battery |-> Undef]

\* if (typeof b.f === 'number') thresholds.f = b.f;
MergeFieldNoCheck(old, new) == IF new.t = "undefined" THEN old ELSE new
MergeField(old, new) == IF IsTypeofNumber(new) THEN new ELSE old

MergeThresholds(th, b) ==
  [cpu |-> MergeField(th.cpu, b.cpu),
   ram |-> MergeField(th.ram, b.ram),
   battery |-> MergeField(th.battery, b.battery)]

PostThresholds(b) ==
  /\ thresholds' = MergeThresholds(thresholds, b)
  /\ thRes' = [route |-> "POST", status |-> 200, body |-> b,
               thresholds |-> thresholds']
  /\ UNCHANGED <<envVars, pollVars, alertVars, logVars, procVars>>

\* app.get('/api/thresholds'), asked for on its own
GetThresholds ==
  /\ thRes' = [route |-> "GET", status |-> 200, body |-> NoBody,
               thresholds |-> thresholds]
  /\ UNCHANGED <<thresholds, envVars, pollVars, alertVars, logVars, procVars>>


(***************************************************************************)
(* The host's sensors (systeminformation).  A reading is what every si.*   *)
(* query would answer at one moment: err holds the queries that reject.    *)
(***************************************************************************)
SensorNames == {"cpu", "mem", "battery", "fs", "graphics", "processes"}

Loads == {Num(50004), Num(91000), Num(93000), Undef}
Mems == {[active |-> Num(4000), used |-> Num(5000), total |-> Num(8000)],
         [active |-> Num(7000), used |-> Num(7500), total |-> Num(8000)],
         [active |-> Num(1000), used |-> Num(2000), total |-> Num(3000)],
         [active |-> Undef, used |-> Undef, total |-> Undef]}
\* si.battery() on a host without a battery sensor
NoBattery == [hasbattery |-> FALSE, percent |-> Num(0), maxcapacity |-> Num(0)]
BatteriesOf(m) ==
  IF m = "nobattery" THEN {NoBattery}
  ELSE {[hasbattery |-> TRUE, percent |-> Pct(10), maxcapacity |-> Num(40000)],
        [hasbattery |-> TRUE, percent |-> Pct(80), maxcapacity |-> Num(40000)],
        [hasbattery |-> TRUE, percent |-> Undef, maxcapacity |-> Num(40000)],
        \* a laptop that under-reports its battery
        [hasbattery |-> FALSE, percent |-> Pct(10), maxcapacity |-> Num(0)],
        [hasbattery |-> FALSE, percent |-> Num(0), maxcapacity |-> Num(0)]}
\* si.powerSupply(): "throws" (the call rejects or is no function), or the
\* percent field of what it answers
PowerSuppliesOf(m) ==
  IF m = "nobattery" THEN {[throws |-> TRUE, percent |-> Undef],
                           [throws |-> FALSE, percent |-> Undef]}
  ELSE {[throws |-> TRUE, percent |-> Undef],
        [throws |-> FALSE, percent |-> Undef],
        [throws |-> FALSE, percent |-> Pct(10)]}
Disk == [fs |-> 1, mount |-> 1, size |-> 500, used |-> 250, use |-> Pct(50)]
FsSizes == {<<>>, <<Disk>>}
\* a graphics controller: model is present (1) or omitted (0)
Controllers == {<<>>, <<[model |-> 1, vendor |-> 1, vram |-> 2048, utilizationGpu |-> Undef]>>,
                <<[model |-> 0, vendor |-> 0, vram |-> 0, utilizationGpu |-> Pct(40)]>>}
ErrSets == {{}} \cup {{s} : s \in SensorNames \ {"processes"}}

Readings(m, loads, mems, errs) ==
  [err : errs, currentLoad : loads, mem : mems, battery : BatteriesOf(m),
   ps : PowerSuppliesOf(m), fsSize : {<<Disk>>}, controllers : {<<>>}]
\* the readings of the polling specification
PollReadings(m) ==
  Readings(m, Loads, {[active |-> Num(1000), used |-> Num(2000), total |-> Num(3000)]}, ErrSets)
    \cup Readings(m, {Num(50004)}, Mems, {{}})
    \cup [err : {{}}, currentLoad : {Num(50004)},
          mem : {[active |-> Num(4000), used |-> Num(5000), total |-> Num(8000)]},
          battery : {NoBattery}, ps : {[throws |-> TRUE, percent |-> Undef]},
          fsSize : FsSizes, controllers : Controllers]

(***************************************************************************)
(* The normalisations the handlers repeat.                                 *)
(***************************************************************************)
\* Number(x.currentLoad?.toFixed?.(2) ?? x.currentLoad ?? 0)
CpuPercent(load) ==
  LET fixed == IF IsTypeofNumber(load) THEN ToFixed2(load) ELSE Undef
  IN  JsNumber(Coalesce(Coalesce(fixed, load), Num(0)))
\* improved build: Number(x.currentLoad?.toFixed?.(2) ?? 0)
CpuPercentImproved(load) ==
  LET fixed == IF IsTypeofNumber(load) THEN ToFixed2(load) ELSE Undef
  IN  JsNumber(Coalesce(fixed, Num(0)))
\* the ratio without the ?? defaults of its two fields
RamPercentNoDefault(mem) ==
  LET a == JsNumber(mem.active)
      d == JsNumber(mem.total)
  IN  IF a.t # "number" \/ d.t # "number" THEN NaN
      ELSE IF d.v = 0 THEN (IF a.v = 0 THEN NaN ELSE Infinity)
      ELSE Num(((a.v * 20000 + d.v) \div (2 * d.v)) * 10)
\* Number((((mem?.active ?? 0) / (mem?.total ?? 1)) * 100).toFixed(2)):
\* the quotient and its rounding to hundredths are one step here, since the
\* unrounded quotient is no multiple of a thousandth
RamPercent(mem) ==
  LET a == JsNumber(Coalesce(mem.active, Num(0)))
      d == JsNumber(Coalesce(mem.total, Num(1000)))
  IN  IF a.t # "number" \/ d.t # "number" THEN NaN
      ELSE IF d.v = 0 THEN (IF a.v = 0 THEN NaN ELSE Infinity)
      ELSE Num(((a.v * 20000 + d.v) \div (2 * d.v)) * 10)

\* robust build: battery?.hasbattery ? (battery.percent ?? null) : null
StatsBattery(b) == IF b.hasbattery THEN Coalesce(b.percent, Null) ELSE Null
\* snapshot and cron: battery?.hasbattery ? (battery.percent ?? 'N/A') : 'N/A'
ExportBattery(b) == IF b.hasbattery THEN Coalesce(b.percent, StrNA) ELSE StrNA

\* improved build: getBatteryInfo(), its try/catch included
GetBatteryInfo(r) ==
  IF "battery" \in r.err THEN Null
  ELSE IF \/ r.battery.hasbattery
          \/ (r.battery.percent.t = "number" /\ r.battery.percent.v > 0)
          \/ (r.battery.maxcapacity.t = "number" /\ r.battery.maxcapacity.v > 0)
       THEN Coalesce(r.battery.percent, Null)
  ELSE IF r.ps.throws THEN Null
  ELSE IF IsTruthy(r.ps.percent) THEN r.ps.percent
  ELSE Null

MapDisks(fsSize) == [i \in DOMAIN fsSize |->
  [fs |-> fsSize[i].fs, mount |-> fsSize[i].mount, size |-> fsSize[i].size,
   used |-> fsSize[i].used, use |-> fsSize[i].use]]
\* model 0 stands for 'unknown' and vendor 0 for ''
MapGpus(cs) == [i \in DOMAIN cs |->
  [model |-> cs[i].model, vendor |-> cs[i].vendor, vram |-> cs[i].vram,
   utilizationGpu |-> Coalesce(cs[i].utilizationGpu, Null)]]

Error500 == [status |-> 500]
StatsBody(cpu, ram, batteryPct, r) ==
  [status |-> 200, cpu |-> JsonNumber(cpu), ram |-> JsonNumber(ram),
   battery |-> batteryPct, ssd |-> MapDisks(r.fsSize),
   gpu |-> MapGpus(r.controllers)]

\* app.get('/api/stats') of the robust build: one Promise.all of five queries
StatsRobust(r) ==
  IF r.err \cap {"cpu", "mem", "battery", "fs", "graphics"} # {} THEN Error500
  ELSE StatsBody(CpuPercent(r.currentLoad), RamPercent(r.mem),
                 StatsBattery(r.battery), r)
\* app.get('/api/stats') of the improved build: four queries, then getBatteryInfo
StatsImproved(r) ==
  IF r.err \cap {"cpu", "mem", "fs", "graphics"} # {} THEN Error500
  ELSE StatsBody(CpuPercentImproved(r.currentLoad), RamPercent(r.mem),
                 GetBatteryInfo(r), r)
ServeStats(b, r) == IF b = "robust" THEN StatsRobust(r) ELSE StatsImproved(r)

\* const fmt = (req.query.fmt || 'csv').toLowerCase(); if (fmt === 'pdf')
SnapshotFormat(fmt) == IF fmt = "pdf" THEN "pdf" ELSE "csv"

\* the top processes of /api/snapshot.  The comparator is handed the raw
\* fields: (b.pcpu ?? b.cpu ?? 0) - (a.pcpu ?? a.cpu ?? 0) in the robust
\* build, (b.pcpu ?? 0) - (a.pcpu ?? 0) in the improved one
TopExport == 10
NameEmpty == Str(6)
ExportCpu(b, p) ==
  IF b = "robust" THEN Coalesce(Coalesce(p.pcpu, p.cpu), Num(0))
  ELSE Coalesce(p.pcpu, Num(0))
ExportMem(b, p) ==
  IF b = "robust" THEN Coalesce(Coalesce(p.pmem, p.mem), Num(0))
  ELSE Coalesce(p.pmem, Num(0))
\* what the comparator returns for (x, y): the difference of the two fields
\* converted by ToNumber, NaN when either is no number
ExportCompareRaw(b, x, y) ==
  LET kx == JsNumber(ExportCpu(b, x))
      ky == JsNumber(ExportCpu(b, y))
  IN  IF kx.t = "number" /\ ky.t = "number" THEN Num(ky.v - kx.v) ELSE NaN
\* Array.prototype.sort reads a NaN from the comparator as +0
ExportCompare(b, x, y) ==
  LET v == ExportCompareRaw(b, x, y) IN IF v.t = "number" THEN v.v ELSE 0

\* With a comparator that is no consistent order the result of sort is up
\* to the engine.  Two engines' sorts of a short array: straight insertion,
\* and binary insertion after the initial run (TimSort, as V8 sorts).  On a
\* consistent comparator both give the one stable order.
SortAlgs == {"insertion", "timsort"}
RECURSIVE InsertFromTail(_, _, _)
InsertFromTail(b, sorted, e) ==
  IF sorted = <<>> THEN <<e>>
  ELSE LET last == sorted[Len(sorted)]
       IN  IF ExportCompare(b, last, e) > 0
             THEN Append(InsertFromTail(b, SubSeq(sorted, 1, Len(sorted) - 1), e), last)
             ELSE Append(sorted, e)
RECURSIVE SortInsertion(_, _)
SortInsertion(b, list) ==
  IF list = <<>> THEN <<>>
  ELSE InsertFromTail(b, SortInsertion(b, SubSeq(list, 1, Len(list) - 1)),
                      list[Len(list)])

\* the last index of the run that starts the array
RECURSIVE RunEnd(_, _, _, _)
RunEnd(b, list, desc, idx) ==
  IF idx > Len(list) THEN Len(list)
  ELSE LET order == ExportCompare(b, list[idx], list[idx - 1])
       IN  IF (desc /\ order >= 0) \/ (~desc /\ order < 0) THEN idx - 1
           ELSE RunEnd(b, list, desc, idx + 1)
Reverse(a) == [i \in 1..Len(a) |-> a[Len(a) + 1 - i]]
\* where the pivot goes among the first `right` entries (counted from 0)
RECURSIVE BinaryPosition(_, _, _, _, _)
BinaryPosition(b, a, pivot, left, right) ==
  IF left >= right THEN left
  ELSE LET mid == left + ((right - left) \div 2)
       IN  IF ExportCompare(b, pivot, a[mid + 1]) < 0
             THEN BinaryPosition(b, a, pivot, left, mid)
             ELSE BinaryPosition(b, a, pivot, mid + 1, right)
RECURSIVE BinaryInsertionSort(_, _, _)
BinaryInsertionSort(b, a, start) ==
  IF start >= Len(a) THEN a
  ELSE LET pivot == a[start + 1]
           pos == BinaryPosition(b, a, pivot, 0, start)
       IN  BinaryInsertionSort(b,
             SubSeq(a, 1, pos) \o <<pivot>> \o SubSeq(a, pos + 1, start)
               \o SubSeq(a, start + 2, Len(a)),
             start + 1)
SortTim(b, list) ==
  IF Len(list) < 2 THEN list
  ELSE LET desc == ExportCompare(b, list[2], list[1]) < 0
           run == RunEnd(b, list, desc, 3)
           a == IF desc THEN Reverse(SubSeq(list, 1, run)) \o SubSeq(list, run + 1, Len(list))
                ELSE list
       IN  BinaryInsertionSort(b, a, run)
SortExport(b, list, alg) ==
  IF alg = "insertion" THEN SortInsertion(b, list) ELSE SortTim(b, list)

\* one row of the csv, one line of the pdf: pid, name, cpu, mem as written
ExportEntry(b, fmt, p) ==
  [pid |-> p.pid,
   name |-> IF fmt = "csv" /\ ~IsTruthy(p.name) THEN NameEmpty ELSE p.name,
   cpu |-> ExportCpu(b, p), mem |-> ExportMem(b, p)]
\* (procs?.list || []).sort(...).slice(0, 10), as the response writes it
TopExportProcs(b, list, fmt, alg) ==
  LET sorted == SortExport(b, list, alg)
      top == SubSeq(sorted, 1, IF Len(sorted) < TopExport THEN Len(sorted) ELSE TopExport)
  IN  [i \in DOMAIN top |-> ExportEntry(b, SnapshotFormat(fmt), top[i])]

\* app.get('/api/snapshot'): the headline values of the csv and of the pdf
\* (cpuVal, ramVal, batteryVal) and the top processes below them; the
\* improved build writes a null batteryVal as 'N/A' only where it prints it
SnapshotRobust(r, fmt, list, alg) ==
  IF r.err \cap {"cpu", "mem", "battery", "processes"} # {} THEN Error500
  ELSE [status |-> 200, fmt |-> SnapshotFormat(fmt),
        cpu |-> CpuPercent(r.currentLoad), ram |-> RamPercent(r.mem),
        battery |-> ExportBattery(r.battery),
        procs |-> TopExportProcs("robust", list, fmt, alg)]
SnapshotImproved(r, fmt, list, alg) ==
  IF r.err \cap {"cpu", "mem", "processes"} # {} THEN Error500
  ELSE [status |-> 200, fmt |-> SnapshotFormat(fmt),
        cpu |-> CpuPercentImproved(r.currentLoad), ram |-> RamPercent(r.mem),
        battery |-> GetBatteryInfo(r),
        procs |-> TopExportProcs("improved", list, fmt, alg)]
ServeSnapshot(b, r, fmt, list, alg) ==
  IF b = "robust" THEN SnapshotRobust(r, fmt, list, alg)
  ELSE SnapshotImproved(r, fmt, list, alg)

\* cron.schedule: whether the tick's poll rejects, and the line the tick
\* builds at minute `at`
CronPollFails(b, r) ==
  IF b = "robust" THEN r.err \cap {"cpu", "mem", "battery"} # {}
  ELSE r.err \cap {"cpu", "mem"} # {}
CronLine(b, r, at) ==
  IF b = "robust"
    THEN [time |-> at, cpu |-> CpuPercent(r.currentLoad),
          ram |-> RamPercent(r.mem), battery |-> ExportBattery(r.battery)]
    ELSE [time |-> at, cpu |-> CpuPercentImproved(r.currentLoad),
          ram |-> RamPercent(r.mem),
          battery |-> Coalesce(GetBatteryInfo(r), StrNA)]

(***************************************************************************)
(* Polling actions.                                                        *)
(***************************************************************************)
\* the host's sensors move on to another reading
Moment(r) ==
  /\ r # sensors
  /\ sensors' = r
  /\ statsRes' = None
  /\ snapRes' = None
  /\ resourceRes' = None
  /\ hadFailure' = (hadFailure \/ statsRes.status = 500)
  /\ UNCHANGED <<thVars, envVars, alertVars, logVars, procVars>>

GetStats ==
  /\ statsRes' = ServeStats(build, sensors)
  /\ hadFailure' = (hadFailure \/ statsRes.status = 500)
  /\ UNCHANGED <<sensors, snapRes, resourceRes, thVars, envVars, alertVars,
                 logVars, procVars>>

GetSnapshot(fmt) ==
  /\ \E alg \in SortAlgs :
       snapRes' = ServeSnapshot(build, sensors, fmt, procList, alg)
  /\ UNCHANGED <<sensors, statsRes, resourceRes, hadFailure, thVars, envVars, alertVars,
                 logVars, procVars>>

(***************************************************************************)
(* src/server.cjs: getBatteryInfo, getSystemInfo and GET /api/resource.    *)
(***************************************************************************)
\* the text 'NaN', as toFixed writes a NaN
StrNaN == Str(5)

\* getBatteryInfo of server.cjs, its try/catch included; the hosts of the
\* model do not report ischarging, so isCharging is its ?? false
GetBatteryInfoCjs(r) ==
  IF "battery" \in r.err THEN [percent |-> StrNA, isCharging |-> FALSE]
  ELSE IF r.battery.hasbattery
    THEN [percent |-> Coalesce(r.battery.percent, StrNA), isCharging |-> FALSE]
  ELSE [percent |-> StrNA, isCharging |-> FALSE]

\* ((mem.used / mem.total) * 100).toFixed(2): a text
MemoryUsage(mem) ==
  IF mem.used.t # "number" \/ mem.total.t # "number" \/ mem.total.v = 0
    THEN StrNaN
    ELSE NumStr(((mem.used.v * 20000 + mem.total.v) \div (2 * mem.total.v)) * 10)

\* getSystemInfo: the catch answers 'N/A' for a rejected query and for the
\* TypeError of cpu.currentLoad.toFixed on a missing currentLoad
GetSystemInfo(r) ==
  IF r.err \cap {"cpu", "mem"} # {} \/ ~IsTypeofNumber(r.currentLoad)
    THEN [cpu |-> StrNA, memory |-> StrNA, battery |-> StrNA, charging |-> Undef]
    ELSE [cpu |-> NumStr(ToFixed2(r.currentLoad).v),
          memory |-> MemoryUsage(r.mem),
          battery |-> GetBatteryInfoCjs(r).percent,
          charging |-> GetBatteryInfoCjs(r).isCharging]

\* app.get('/api/resource')
GetResource ==
  /\ resourceRes' = [status |-> 200, info |-> GetSystemInfo(sensors)]
  /\ UNCHANGED <<sensors, statsRes, snapRes, hadFailure, thVars, envVars,
                 alertVars, logVars, procVars>>


(***************************************************************************)
(* The client: fetchStats and checkAlerts.                                 *)
(***************************************************************************)
CpuCooldown == 3
RamCooldown == 3
BatteryCooldown == 30
Metrics == {"cpu", "ram", "battery"}
Cooldown(m) ==
  CASE m = "cpu" -> CpuCooldown
    [] m = "ram" -> RamCooldown
    [] m = "battery" -> BatteryCooldown

\* the readings the alert specification polls
AlertReadings(m) ==
  LET low == [hasbattery |-> TRUE, percent |-> Pct(10), maxcapacity |-> Num(40000)]
      high == [hasbattery |-> TRUE, percent |-> Pct(80), maxcapacity |-> Num(40000)]
      r(e, load, active, b, psThrows) ==
        [err |-> e, currentLoad |-> Num(load),
         mem |-> [active |-> Num(active), used |-> Num(active + 500),
                 total |-> Num(8000)],
         battery |-> IF m = "nobattery" THEN NoBattery ELSE b,
         ps |-> [throws |-> psThrows, percent |-> Undef],
         fsSize |-> <<Disk>>, controllers |-> <<>>]
  IN  {r({}, 91000, 4000, low, TRUE), r({}, 93000, 7000, low, FALSE),
       r({"battery"}, 50004, 4000, high, TRUE)}

\* the bodies the alert specification posts to /api/thresholds
AlertBodies == {[cpu |-> Pct(95), ram |-> StrAbc, battery |-> Pct(100)]}

NoTh == [cpu |-> Undef, ram |-> Undef, battery |-> Undef]

FiredMetricsSharedStamp(cpu, ram, battery, th, now, la) ==
  LET last == IF la.cpu >= la.ram /\ la.cpu >= la.battery THEN la.cpu
              ELSE IF la.ram >= la.battery THEN la.ram ELSE la.battery
  IN  {m \in Metrics :
         \/ m = "cpu" /\ JsGe(cpu, th.cpu) /\ now - last > CpuCooldown
         \/ m = "ram" /\ JsGe(ram, th.ram) /\ now - last > RamCooldown
         \/ /\ m = "battery"
            /\ battery # Null /\ battery # StrNA /\ JsLe(battery, th.battery)
            /\ now - last > BatteryCooldown}
FiredMetricsInclusive(cpu, ram, battery, th, now, la) ==
  {m \in Metrics :
     \/ m = "cpu" /\ JsGe(cpu, th.cpu) /\ now - la.cpu >= CpuCooldown
     \/ m = "ram" /\ JsGe(ram, th.ram) /\ now - la.ram >= RamCooldown
     \/ /\ m = "battery"
        /\ battery # Null /\ battery # StrNA /\ JsLe(battery, th.battery)
        /\ now - la.battery >= BatteryCooldown}
FiredMetricsNoNullGuard(cpu, ram, battery, th, now, la) ==
  {m \in Metrics :
     \/ m = "cpu" /\ JsGe(cpu, th.cpu) /\ now - la.cpu > CpuCooldown
     \/ m = "ram" /\ JsGe(ram, th.ram) /\ now - la.ram > RamCooldown
     \/ /\ m = "battery"
        /\ battery # StrNA /\ JsLe(battery, th.battery)
        /\ now - la.battery > BatteryCooldown}

\* lines 116-118: the metrics whose notification fires in one evaluation
FiredMetrics(cpu, ram, battery, th, now, la) ==
  {m \in Metrics :
     \/ /\ m = "cpu"
        /\ JsGe(cpu, th.cpu)
        /\ now - la.cpu > CpuCooldown
     \/ /\ m = "ram"
        /\ JsGe(ram, th.ram)
        /\ now - la.ram > RamCooldown
     \/ /\ m = "battery"
        /\ battery # Null
        /\ battery # StrNA
        /\ JsLe(battery, th.battery)
        /\ now - la.battery > BatteryCooldown}

\* lastAlert.m = now for every metric that fired
StampLastAlert(la, fired, now) ==
  [m \in Metrics |-> IF m \in fired THEN now ELSE la[m]]

\* fetchStats, from the request to the first await of checkAlerts: the host
\* reports r, the server answers, the client hands the values to checkAlerts
FetchStats(r) ==
  /\ nPolls < MaxPolls
  /\ nPolls' = nPolls + 1
  /\ LET d == ServeStats(build, r)
     IN  IF d.status # 200
           THEN calls' = calls
           ELSE calls' = calls \cup
                  {[id |-> nPolls',
                    cpu |-> JsNumber(Coalesce(Coalesce(d.cpu, Undef), Num(0))),
                    ram |-> JsNumber(Coalesce(Coalesce(d.ram, Undef), Num(0))),
                    battery |-> d.battery,
                    th |-> NoTh]}
  /\ UNCHANGED <<clock, nAdvances, lastAlert, evals, thVars, envVars, pollVars, logVars,
                 procVars>>

\* app.get('/api/thresholds') answers call c: r.ok, th = the config as it is now
ThresholdsReply(c) ==
  /\ c \in calls /\ c.th = NoTh
  /\ calls' = (calls \ {c}) \cup {[c EXCEPT !.th = thresholds]}
  /\ UNCHANGED <<clock, nAdvances, lastAlert, nPolls, evals, thVars, envVars, pollVars,
                 logVars, procVars>>

\* the answer is not ok: th = {cpu:90, ram:85, battery:15}
ThresholdsNotOk(c) ==
  /\ c \in calls /\ c.th = NoTh
  /\ calls' = (calls \ {c}) \cup {[c EXCEPT !.th = DefaultThresholds]}
  /\ UNCHANGED <<clock, nAdvances, lastAlert, nPolls, evals, thVars, envVars, pollVars,
                 logVars, procVars>>

\* the fetch rejects: catch(e) reports it and the call ends without evaluating
ThresholdsFetchFails(c) ==
  /\ c \in calls /\ c.th = NoTh
  /\ calls' = calls \ {c}
  /\ UNCHANGED <<clock, nAdvances, lastAlert, nPolls, evals, thVars, envVars, pollVars,
                 logVars, procVars>>

\* checkAlerts resumes after its awaits and runs to its end
CheckAlerts(c) ==
  /\ c \in calls /\ c.th # NoTh
  /\ LET now == clock
         fired == FiredMetrics(c.cpu, c.ram, c.battery, c.th, now, lastAlert)
     IN  /\ lastAlert' = StampLastAlert(lastAlert, fired, now)
         /\ evals' = Append(evals, [cpu |-> c.cpu, ram |-> c.ram,
                                    battery |-> c.battery, th |-> c.th,
                                    now |-> now, fired |-> fired])
  /\ calls' = calls \ {c}
  /\ UNCHANGED <<clock, nAdvances, nPolls, thVars, envVars, pollVars, logVars, procVars>>

\* the steps in which the model lets time pass: up to the CPU and RAM
\* cool-down, and with it just short of and just past the battery cool-down
AdvanceSteps == {CpuCooldown, BatteryCooldown - 2}

\* time passes
Advance(d) ==
  /\ nAdvances < MaxAdvances
  /\ nAdvances' = nAdvances + 1
  /\ clock' = clock + d
  /\ UNCHANGED <<lastAlert, calls, nPolls, evals, thVars, envVars, pollVars,
                 logVars, procVars>>


(***************************************************************************)
(* The log: appendLogAsync, the cron tick and GET /api/logs.  The file is  *)
(* a sequence of characters; a log line is one token of it (no line holds  *)
(* a line break, and every line starts with "[" and ends with "%" or "A",  *)
(* so a line is never white space) and NL is the line break.               *)
(***************************************************************************)
DefaultLines == 200
NL == [time |-> 0, cpu |-> Undef, ram |-> Undef, battery |-> Undef]
NoFile == [exists |-> FALSE, text |-> <<>>]

\* String.prototype.trim
RECURSIVE TrimLeft(_)
TrimLeft(s) == IF s # <<>> /\ Head(s) = NL THEN TrimLeft(Tail(s)) ELSE s
RECURSIVE TrimRight(_)
TrimRight(s) ==
  IF s # <<>> /\ s[Len(s)] = NL THEN TrimRight(SubSeq(s, 1, Len(s) - 1)) ELSE s
Trim(s) == TrimRight(TrimLeft(s))

\* s.split('\n'): the strings between the line breaks ('' splits to [''])
RECURSIVE Split(_)
Split(s) ==
  IF \A i \in DOMAIN s : s[i] # NL THEN <<s>>
  ELSE LET i == CHOOSE k \in DOMAIN s : s[k] = NL /\ \A j \in 1..(k - 1) : s[j] # NL
       IN  <<SubSeq(s, 1, i - 1)>> \o Split(SubSeq(s, i + 1, Len(s)))

\* a.slice(start)
Slice(a, start) ==
  LET len == Len(a)
      k == IF start < 0 THEN (IF len + start > 0 THEN len + start ELSE 0)
           ELSE (IF start < len THEN start ELSE len)
  IN  SubSeq(a, k + 1, len)

\* parseInt(q, 10) of a query parameter: a number for decimal text, else NaN
ParseInt(q) == IF q.t = "numstr" THEN Num(q.v) ELSE NaN
\* parseInt(req.query.n, 10) || 200
LinesWanted(q) ==
  LET n == ParseInt(q) IN IF IsFalsyNumber(n) THEN DefaultLines ELSE n.v

\* the n parameters the model asks with: missing, text, and whole numbers
Queries ==
  {Undef, StrAbc, NumStr(DefaultLines)} \cup {NumStr(k) : k \in (0 - 2)..(MaxTicks + 1)}

\* all.slice(-n)
RecentLinesHead(text, n) == Slice(Split(Trim(text)), n)
RecentLines(text, n) == Slice(Split(Trim(text)), 0 - n)

\* app.get('/api/logs')
LogsResponseNoGuard(file, q) ==
  IF ~file.exists THEN Error500
  ELSE [status |-> 200, body |-> RecentLines(file.text, LinesWanted(q))]
LogsResponse(file, q) ==
  IF ~file.exists THEN [status |-> 200, body |-> <<>>]
  ELSE [status |-> 200, body |-> RecentLines(file.text, LinesWanted(q))]

GetLogs(q) ==
  /\ logsRes' = [status |-> 1, q |-> q, hadFile |-> logFile.exists,
                 seen |-> appended, res |-> LogsResponse(logFile, q)]
  /\ UNCHANGED <<logFile, pendingAppends, appended, nTicks, opErrors, crashed, thVars,
                 envVars, pollVars, alertVars, procVars>>

\* the try/catch of the tick handler: what the tick of minute `at` reports,
\* whether an error leaves the handler, and the lines it hands to
\* appendLogAsync
TickOutcomeNoCatch(b, r, at) ==
  IF CronPollFails(b, r)
    THEN [reports |-> <<>>, thrown |-> TRUE, lines |-> {}]
    ELSE [reports |-> <<>>, thrown |-> FALSE, lines |-> {CronLine(b, r, at)}]
TickOutcome(b, r, at) ==
  IF CronPollFails(b, r)
    THEN [reports |-> <<[kind |-> "cron error", tick |-> at]>>, thrown |-> FALSE,
          lines |-> {}]
    ELSE [reports |-> <<>>, thrown |-> FALSE, lines |-> {CronLine(b, r, at)}]

\* one tick of cron.schedule('* * * * *'): poll, build the line, appendLogAsync.
\* The step is the tick's continuation after its await: the poll has
\* settled, the line is built and stamped there and fs.appendFile is called,
\* which returns before the write is done.  Ticks whose polls overlap take
\* this step in the order in which their polls settle.
CronTick ==
  /\ ~crashed
  /\ nTicks < MaxTicks
  /\ nTicks' = nTicks + 1
  /\ LET o == TickOutcome(build, sensors, nTicks')
     IN  /\ opErrors' = opErrors \o o.reports
         /\ crashed' = o.thrown
         /\ pendingAppends' = pendingAppends \cup o.lines
  /\ UNCHANGED <<logFile, appended, logsRes, thVars, envVars, pollVars,
                 alertVars, procVars>>

\* fs.appendFile(LOG_FILE, line + '\n', cb) completes: cb(null)
AppendDone(line) ==
  /\ ~crashed
  /\ line \in pendingAppends
  /\ pendingAppends' = pendingAppends \ {line}
  /\ logFile' = [exists |-> TRUE, text |-> logFile.text \o <<line, NL>>]
  /\ appended' = Append(appended, line)
  /\ UNCHANGED <<nTicks, opErrors, crashed, logsRes, thVars, envVars, pollVars,
                 alertVars, procVars>>

\* fs.appendFile fails: cb(err) reports 'Failed to append log:'
AppendFail(line) ==
  /\ ~crashed
  /\ line \in pendingAppends
  /\ pendingAppends' = pendingAppends \ {line}
  /\ opErrors' = Append(opErrors, [kind |-> "Failed to append log:", tick |-> nTicks])
  /\ UNCHANGED <<logFile, appended, nTicks, crashed, logsRes, thVars, envVars,
                 pollVars, alertVars, procVars>>

(***************************************************************************)
(* GET /api/processes (robust build).                                      *)
(***************************************************************************)
TopLive == 5
NameUnknown == Str(2)

\* the shapes of a process entry, its pid apart
ProcShapes ==
  {[name |-> Str(3), command |-> Undef, pcpu |-> Num(12344), cpu |-> Undef,
    cpuPercent |-> Undef, cpuUsage |-> Undef,
    pmem |-> Num(1000), mem |-> Undef, memPercent |-> Undef],
   [name |-> Str(3), command |-> Undef, pcpu |-> Undef, cpu |-> Num(12340),
    cpuPercent |-> Undef, cpuUsage |-> Undef,
    pmem |-> Undef, mem |-> Num(2006), memPercent |-> Undef],
   [name |-> Undef, command |-> Str(4), pcpu |-> StrAbc, cpu |-> Num(50000),
    cpuPercent |-> Undef, cpuUsage |-> Undef,
    pmem |-> StrAbc, mem |-> Undef, memPercent |-> Undef],
   [name |-> Undef, command |-> Undef, pcpu |-> Undef, cpu |-> Undef,
    cpuPercent |-> Undef, cpuUsage |-> Undef,
    pmem |-> Undef, mem |-> Undef, memPercent |-> Undef],
   [name |-> Str(3), command |-> Str(4), pcpu |-> Null, cpu |-> Undef,
    cpuPercent |-> Num(99000), cpuUsage |-> Undef,
    pmem |-> Null, mem |-> Null, memPercent |-> Num(3000)]}

\* const safeNum = v => ...
SafeNum(v) ==
  IF IsNullish(v) THEN Num(0)
  ELSE LET n == JsNumber(v) IN IF IsFinite(n) THEN n ELSE Num(0)

\* p.pcpu ?? p.cpu ?? p.cpuPercent ?? p.cpuUsage ?? 0
CpuRaw(p) ==
  Coalesce(Coalesce(Coalesce(Coalesce(p.pcpu, p.cpu), p.cpuPercent), p.cpuUsage), Num(0))
MemRaw(p) == Coalesce(Coalesce(Coalesce(p.pmem, p.mem), p.memPercent), Num(0))

\* list.map(p => ({pid, name, cpu, mem}))
MapProcess(p) ==
  [pid |-> p.pid,
   name |-> Coalesce(Coalesce(p.name, p.command), NameUnknown),
   cpu |-> Round2(JsNumber(SafeNum(CpuRaw(p)))),
   mem |-> Round2(JsNumber(SafeNum(MemRaw(p))))]
MapProcesses(list) == [i \in DOMAIN list |-> MapProcess(list[i])]

\* (a, b) => (b.cpu ?? 0) - (a.cpu ?? 0), on entries whose cpu is finite
CompareCpu(a, b) == Coalesce(b.cpu, Num(0)).v - Coalesce(a.cpu, Num(0)).v

\* Array.prototype.sort is stable: an entry goes after every entry the
\* comparator does not put behind it
RECURSIVE InsertSorted(_, _)
InsertSorted(sorted, e) ==
  IF sorted = <<>> THEN <<e>>
  ELSE IF CompareCpu(Head(sorted), e) <= 0
       THEN <<Head(sorted)>> \o InsertSorted(Tail(sorted), e)
       ELSE <<e>> \o sorted
RECURSIVE SortByCpu(_)
SortByCpu(list) ==
  IF list = <<>> THEN <<>>
  ELSE InsertSorted(SortByCpu(SubSeq(list, 1, Len(list) - 1)), list[Len(list)])

\* mapped.sort(...).slice(0, 5)
TopProcessesUnsorted(list) ==
  SubSeq(MapProcesses(list), 1, IF Len(list) < TopLive THEN Len(list) ELSE TopLive)
TopProcesses(list) ==
  LET sorted == SortByCpu(MapProcesses(list))
  IN  SubSeq(sorted, 1, IF Len(sorted) < TopLive THEN Len(sorted) ELSE TopLive)

\* si.processes() lists one more process
AddProcess(shape) ==
  /\ Len(procList) < MaxProcs
  /\ procList' = Append(procList, [pid |-> Len(procList) + 1] @@ shape)
  /\ procRes' = None
  /\ snapRes' = None
  /\ UNCHANGED <<sensors, statsRes, resourceRes, hadFailure, thVars, envVars,
                 alertVars, logVars>>

\* si.processes() lists another table of processes
ProcessTable(list) ==
  /\ list # procList
  /\ procList' = list
  /\ procRes' = None
  /\ snapRes' = None
  /\ UNCHANGED <<sensors, statsRes, resourceRes, hadFailure, thVars, envVars,
                 alertVars, logVars>>

\* app.get('/api/processes')
GetProcesses ==
  /\ procRes' = [status |-> 200, body |-> TopProcesses(procList)]
  /\ UNCHANGED <<procList, thVars, envVars, pollVars, alertVars, logVars>>

\* si.processes() rejects: the handler answers 500
GetProcessesFails ==
  /\ procRes' = Error500
  /\ UNCHANGED <<procList, thVars, envVars, pollVars, alertVars, logVars>>

(***************************************************************************)
(* Specifications.                                                         *)
(***************************************************************************)
Builds == {"robust", "improved"}
Machines == {"battery", "nobattery"}
QuietReading ==
  [err |-> {}, currentLoad |-> Num(50004),
   mem |-> [active |-> Num(4000), used |-> Num(5000), total |-> Num(8000)], battery |-> NoBattery,
   ps |-> [throws |-> TRUE, percent |-> Undef], fsSize |-> <<Disk>>,
   controllers |-> <<>>]

InitServer ==
  /\ thresholds = DefaultThresholds
  /\ thRes = None
  /\ statsRes = None
  /\ snapRes = None
  /\ resourceRes = None
  /\ hadFailure = FALSE
  /\ logFile = NoFile
  /\ pendingAppends = {}
  /\ appended = <<>>
  /\ nTicks = 0
  /\ opErrors = <<>>
  /\ crashed = FALSE
  /\ logsRes = None
  /\ procList = <<>>
  /\ procRes = None
InitClient ==
  /\ clock = StartTime
  /\ nAdvances = 0
  /\ lastAlert = [m \in Metrics |-> 0]
  /\ calls = {}
  /\ nPolls = 0
  /\ evals = <<>>

\* the threshold config under every POST
InitThresholds ==
  /\ InitServer /\ InitClient
  /\ build = "robust" /\ machine = "nobattery" /\ sensors = QuietReading
NextThresholds ==
  \/ \E b \in Bodies : PostThresholds(b)
  \/ GetThresholds
  \/ GetStats
SpecThresholds == InitThresholds /\ [][NextThresholds]_vars

\* the client polling and evaluating alerts against a running server
InitAlerts ==
  /\ InitServer /\ InitClient
  /\ build \in Builds /\ machine \in Machines /\ sensors = QuietReading
NextAlerts ==
  \/ \E r \in AlertReadings(machine) : FetchStats(r)
  \/ \E c \in calls : ThresholdsReply(c)
  \/ \E c \in calls : ThresholdsNotOk(c)
  \/ \E c \in calls : ThresholdsFetchFails(c)
  \/ \E c \in calls : CheckAlerts(c)
  \/ \E d \in AdvanceSteps : Advance(d)
  \/ \E b \in AlertBodies : PostThresholds(b)
SpecAlerts == InitAlerts /\ [][NextAlerts]_vars

\* the log file under cron ticks and reads
InitLogs ==
  /\ InitServer /\ InitClient
  /\ build = "robust" /\ machine \in Machines
  /\ sensors \in Readings(machine, {Num(50004)},
                          {[active |-> Num(1000), used |-> Num(2000), total |-> Num(3000)]},
                          {{}, {"mem"}})
NextLogs ==
  \/ CronTick
  \/ \E l \in pendingAppends : AppendDone(l)
  \/ \E l \in pendingAppends : AppendFail(l)
  \/ \E q \in Queries : GetLogs(q)
SpecLogs == InitLogs /\ [][NextLogs]_vars

\* the cron ticks while the sensors come and go
TickReadings ==
  {r \in Readings("nobattery", {Num(50004)},
                  {[active |-> Num(1000), used |-> Num(2000), total |-> Num(3000)]},
                  {{}, {"mem"}, {"battery"}}) : r.ps.throws}
InitTicks ==
  /\ InitServer /\ InitClient
  /\ build \in Builds /\ machine = "nobattery"
  /\ sensors \in TickReadings
NextTicks ==
  \/ \E r \in TickReadings : Moment(r)
  \/ CronTick
  \/ \E l \in pendingAppends : AppendDone(l)
  \/ \E l \in pendingAppends : AppendFail(l)
SpecTicks == InitTicks /\ [][NextTicks]_vars

\* the process list and GET /api/processes
InitProcs ==
  /\ InitServer /\ InitClient
  /\ build = "robust" /\ machine = "nobattery" /\ sensors = QuietReading
NextProcs ==
  \/ \E shape \in ProcShapes : AddProcess(shape)
  \/ GetProcesses
  \/ GetProcessesFails
SpecProcs == InitProcs /\ [][NextProcs]_vars

\* one moment's readings through /api/stats and /api/snapshot
InitPoll ==
  /\ InitServer /\ InitClient
  /\ build \in Builds /\ machine \in Machines
  /\ sensors \in PollReadings(machine)
NextPoll ==
  \/ \E r \in PollReadings(machine) : Moment(r)
  \/ GetStats
  \/ \E fmt \in {"csv", "pdf"} : GetSnapshot(fmt)
SpecPoll == InitPoll /\ [][NextPoll]_vars

\* the readings of the range specification: the ends of the sensors' ranges
\* (a load of 0, of 100 and one that rounds up to 100.00; memory all free
\* and all active) and missing fields
RangeLoads == {Num(0), Num(50004), Num(99996), Num(100000), Undef}
RangeMems ==
  {[active |-> Num(0), used |-> Num(0), total |-> Num(8000)],
   [active |-> Num(8000), used |-> Num(8000), total |-> Num(8000)],
   [active |-> Num(1000), used |-> Num(2000), total |-> Num(3000)],
   [active |-> Undef, used |-> Undef, total |-> Undef]}
RangeReadings(m) ==
  Readings(m, RangeLoads, RangeMems, {{}})
    \cup Readings(m, {Num(50004)}, {[active |-> Num(1000), used |-> Num(2000),
                                     total |-> Num(3000)]}, ErrSets)

\* a host with one process more than the export lists, all with a numeric
\* pcpu and some with the same one
BusyHost ==
  [i \in 1..(TopExport + 1) |->
     [pid |-> i, name |-> Str(3), command |-> Undef,
      pcpu |-> Num(((i * 7) % 5) * 1000), cpu |-> Undef, cpuPercent |-> Undef,
      cpuUsage |-> Undef, pmem |-> Num(1000), mem |-> Undef,
      memPercent |-> Undef]]

\* the process table through /api/snapshot
InitExport ==
  /\ InitServer /\ InitClient
  /\ build \in Builds /\ machine = "nobattery" /\ sensors = QuietReading
NextExport ==
  \/ \E shape \in ProcShapes : AddProcess(shape)
  \/ ProcessTable(BusyHost)
  \/ \E fmt \in {"csv", "pdf"} : GetSnapshot(fmt)
SpecExport == InitExport /\ [][NextExport]_vars

\* every answer to a poll: /api/stats of script.js, /api/resource of server.cjs
InitStats ==
  /\ InitServer /\ InitClient
  /\ build \in Builds /\ machine \in Machines
  /\ sensors \in RangeReadings(machine)
NextStats ==
  \/ \E r \in RangeReadings(machine) : Moment(r)
  \/ GetStats
  \/ GetResource
SpecStats == InitStats /\ [][NextStats]_vars

Spec == SpecAlerts


(***************************************************************************)
(* Alert claims (SpecAlerts).                                              *)
(***************************************************************************)
\* the time of metric m's own last firing before evaluation k (0: none)
OwnLastFiring(m, k) ==
  LET S == {j \in 1..(k - 1) : m \in evals[j].fired}
  IN  IF S = {} THEN 0
      ELSE evals[CHOOSE j \in S : \A i \in S : i <= j].now
\* the reading of evaluation e crosses metric m's threshold
Crosses(m, e) ==
  CASE m = "cpu" -> JsGe(e.cpu, e.th.cpu)
    [] m = "ram" -> JsGe(e.ram, e.th.ram)
    [] m = "battery" -> e.battery.t = "number" /\ JsLe(e.battery, e.th.battery)

\* C1: two notifications for the same metric are never fired within that
\* metric's cool-down of each other (3 minutes for CPU and RAM, 30 for
\* battery), overlapping threshold fetches included; and a metric's cool-down
\* runs from its own last firing only: a metric whose reading crosses its
\* threshold fires exactly when its own cool-down has elapsed, whatever the
\* other metrics fired, and lastAlert holds each metric's own last firing.
C1_CooldownPerMetric ==
  /\ \A m \in Metrics : \A i, j \in DOMAIN evals :
       (i < j /\ m \in evals[i].fired /\ m \in evals[j].fired)
         => evals[j].now - evals[i].now > Cooldown(m)
  /\ \A m \in Metrics : \A k \in DOMAIN evals :
       m \in evals[k].fired
         <=> (Crosses(m, evals[k])
              /\ evals[k].now - OwnLastFiring(m, k) > Cooldown(m))
  /\ \A m \in Metrics : lastAlert[m] = OwnLastFiring(m, Len(evals) + 1)
\* two overlapping evaluations ran; CPU fired in the first and, its cool-down
\* still running, not in the second, where RAM fired for the first time
C1_Witness ==
  /\ Len(evals) = 2
  /\ evals[1].fired = {"cpu", "battery"}
  /\ evals[2].fired = {"ram"}
  /\ Crosses("cpu", evals[2])
  /\ evals[2].now - evals[1].now = CpuCooldown

\* C2: with a CPU threshold of 90, two consecutive evaluations with readings
\* 91 and 93 at most 3 minutes apart fire exactly one CPU alert, the first
\* one's (the scenario starts with no CPU cool-down running, as after page
\* load); the second is suppressed.
C2_PairFiresOnce ==
  \A k \in DOMAIN evals :
    (/\ k + 1 \in DOMAIN evals
     /\ evals[k].cpu = Pct(91) /\ evals[k + 1].cpu = Pct(93)
     /\ evals[k].th.cpu = Pct(90) /\ evals[k + 1].th.cpu = Pct(90)
     /\ evals[k + 1].now - evals[k].now <= CpuCooldown
     /\ evals[k].now - OwnLastFiring("cpu", k) > CpuCooldown)
      => ("cpu" \in evals[k].fired /\ "cpu" \notin evals[k + 1].fired)
C2_Witness ==
  /\ Len(evals) = 2
  /\ evals[1].cpu = Pct(91) /\ evals[2].cpu = Pct(93)
  /\ evals[1].th.cpu = Pct(90) /\ evals[2].th.cpu = Pct(90)
  /\ evals[2].now - evals[1].now = CpuCooldown
  /\ "cpu" \in evals[1].fired /\ "cpu" \notin evals[2].fired

C4_Step ==
  IF thRes' # thRes /\ thRes'.route = "POST"
    THEN /\ thRes'.status = 200
         /\ thRes'.thresholds = thresholds'
         /\ \A f \in {"cpu", "ram", "battery"} :
              thresholds'[f] = IF thRes'.body[f].t = "number"
                                 THEN thRes'.body[f] ELSE thresholds[f]
    ELSE thresholds' = thresholds
C4_MergeNumbersOnly ==
  /\ thresholds = [cpu |-> Pct(90), ram |-> Pct(85), battery |-> Pct(15)]
  /\ [][C4_Step]_vars
C4_Witness ==
  /\ thRes.status = 200
  /\ thRes.route = "POST"
  /\ thRes.body = [cpu |-> Pct(95), ram |-> StrAbc, battery |-> Undef]
  /\ thresholds = [cpu |-> Pct(95), ram |-> Pct(85), battery |-> Pct(15)]

(***************************************************************************)
(* Log claims (SpecLogs).                                                  *)
(***************************************************************************)
\* body holds the last k lines of seen, oldest first, each as its own string
IsSuffixOf(body, seen) ==
  /\ Len(body) <= Len(seen)
  /\ \A i \in DOMAIN body : body[i] = <<seen[Len(seen) - Len(body) + i]>>
LastLines(seen, n) ==
  [i \in 1..(IF n < Len(seen) THEN n ELSE Len(seen)) |->
     <<seen[Len(seen) - (IF n < Len(seen) THEN n ELSE Len(seen)) + i]>>]
PositiveN(q) == q.t = "numstr" /\ q.v > 0

C6_AbsentFileEmpty ==
  (logsRes.status = 1 /\ ~logsRes.hadFile) =>
    (logsRes.res.status = 200 /\ logsRes.res.body = <<>>)
C6_Witness ==
  /\ logsRes.status = 1 /\ ~logsRes.hadFile
  /\ logsRes.q = NumStr(2)
  /\ nTicks > 0
  /\ logsRes.res = [status |-> 200, body |-> <<>>]

\* C7: a missing, non-numeric, zero or negative n is defaulted: the answer
\* is a success with the last 200 lines, as if n=200 had been given.
C7_MalformedDefaulted ==
  (logsRes.status = 1 /\ ~PositiveN(logsRes.q)) =>
    /\ logsRes.res.status = 200
    /\ logsRes.res.body = LastLines(logsRes.seen, DefaultLines)

(***************************************************************************)
(* Process claim (SpecProcs).                                              *)
(***************************************************************************)
\* the CPU value an entry reports: its first field that is there, rounded
\* to hundredths if it is a number or the text of one, else 0
ReportedCpu(p) ==
  LET fields == <<p.pcpu, p.cpu, p.cpuPercent, p.cpuUsage>>
      there == {i \in 1..4 : fields[i].t \notin {"undefined", "null"}}
      first == CHOOSE i \in there : \A j \in there : i <= j
  IN  IF there = {} THEN 0
      ELSE IF fields[first].t \in {"number", "numstr"}
             THEN ((fields[first].v + 5) \div 10) * 10
      ELSE 0
\* entry a of the list ranks before entry b
RanksBefore(a, b) ==
  \/ ReportedCpu(a) > ReportedCpu(b)
  \/ (ReportedCpu(a) = ReportedCpu(b) /\ a.pid < b.pid)

\* C8: for every process list GET /api/processes answers 200 with at most
\* 5 entries; each entry's cpu is its reported value (0 when missing or
\* non-numeric); the entries are the top 5 in descending cpu order, equal
\* cpu in enumeration order.
C8_TopFiveSorted ==
  (procRes.status # 0 /\ procRes.status # 500) =>
    LET body == procRes.body
        chosen == {body[i].pid : i \in DOMAIN body}
    IN  /\ procRes.status = 200
        /\ Len(body) = (IF Len(procList) < 5 THEN Len(procList) ELSE 5)
        /\ \A i \in DOMAIN body :
             /\ body[i].pid \in DOMAIN procList
             /\ body[i].cpu = Num(ReportedCpu(procList[body[i].pid]))
        /\ \A i \in DOMAIN body : \A j \in DOMAIN body :
             i < j => RanksBefore(procList[body[i].pid], procList[body[j].pid])
        /\ \A i \in DOMAIN body : \A k \in DOMAIN procList :
             k \notin chosen => RanksBefore(procList[body[i].pid], procList[k])
C8_Witness ==
  /\ procRes.status = 200
  /\ Len(procList) = 6
  /\ Len(procRes.body) = 5
  /\ procList[1].pcpu = StrAbc /\ procList[2].pcpu = Num(12344)
  /\ procList[3].cpu = Num(12340) /\ procList[4].cpuPercent = Num(99000)
  /\ procList[5].pcpu = StrAbc /\ procList[6].pcpu = Num(12344)
  /\ <<procRes.body[1].pid, procRes.body[2].pid, procRes.body[3].pid,
       procRes.body[4].pid, procRes.body[5].pid>> = <<4, 2, 3, 6, 1>>

(***************************************************************************)
(* Polling claims (SpecPoll).                                              *)
(***************************************************************************)
\* C9: from the same raw readings /api/stats, the logger tick and the
\* snapshot export compute the same cpu, ram and battery values, an absent
\* battery included.
C9_SameValuesOnEveryPath ==
  (statsRes.status = 200 /\ snapRes.status = 200) =>
    LET line == CronLine(build, sensors, 1)
    IN  /\ statsRes.cpu = snapRes.cpu /\ statsRes.cpu = line.cpu
        /\ statsRes.ram = snapRes.ram /\ statsRes.ram = line.ram
        /\ statsRes.battery = snapRes.battery
        /\ statsRes.battery = line.battery

\* C10: when any one of the CPU, memory, battery, filesystem or graphics
\* queries of a poll rejects, /api/stats answers 500 and no Stats; a request
\* whose queries all succeed answers a full Stats, also after a failed one.
C10_AnySensorErrorIs500 ==
  statsRes.status # 0 =>
    IF sensors.err \cap {"cpu", "mem", "battery", "fs", "graphics"} # {}
      THEN statsRes = [status |-> 500]
      ELSE statsRes.status = 200


(***************************************************************************)
(* Range claims (SpecStats).                                               *)
(***************************************************************************)
InRange(x) == x.t = "number" /\ 0 <= x.v /\ x.v <= 100000
AbsentOrInRange(x) == x = Null \/ InRange(x)

C12_BatteryAbsentOrInRange ==
  /\ statsRes.status = 200 => AbsentOrInRange(statsRes.battery)
  /\ resourceRes.status = 200 => AbsentOrInRange(resourceRes.info.battery)


(***************************************************************************)
(* Export claim (SpecExport).                                              *)
(***************************************************************************)
\* what a written cpu counts as: its number, 0 when it is none
CountedCpu(x) == SafeNum(x).v
ExportRanksBefore(a, b) ==
  \/ CountedCpu(a.cpu) > CountedCpu(b.cpu)
  \/ (CountedCpu(a.cpu) = CountedCpu(b.cpu) /\ a.pid < b.pid)
ExportTopSorted ==
  LET top == snapRes.procs
      pids == {top[i].pid : i \in DOMAIN top}
      rest == {i \in DOMAIN procList : procList[i].pid \notin pids}
  IN  /\ Len(top) = (IF Len(procList) < TopExport THEN Len(procList) ELSE TopExport)
      /\ \A i, j \in DOMAIN top : i < j => ExportRanksBefore(top[i], top[j])
      /\ \A i \in DOMAIN top : \A k \in rest :
           ExportRanksBefore(top[i], ExportEntry(build, snapRes.fmt, procList[k]))
NoNaNCompared ==
  \A i, j \in DOMAIN procList :
    ExportCompareRaw(build, procList[i], procList[j]).t = "number"

\* C13: the top processes of every /api/snapshot response are at most 10,
\* in descending cpu order with ties in enumeration order, a missing or
\* non-numeric cpu counting as 0, and the comparator of the sort never
\* returns NaN.
C13_ExportTopTenSorted ==
  snapRes.status = 200 => (ExportTopSorted /\ NoNaNCompared)


(***************************************************************************)
(* Tick claims (SpecLogs, SpecTicks).                                      *)
(***************************************************************************)
\* the file is the completed appends, each one line and its line break
WholeLines ==
  /\ Len(logFile.text) = 2 * Len(appended)
  /\ \A i \in DOMAIN appended :
       /\ logFile.text[2 * i - 1] = appended[i] /\ appended[i] # NL
       /\ logFile.text[2 * i] = NL
\* a tick builds its line when its poll has settled, and stamps it with the
\* time of that moment: the line with the earlier time was built first
BuiltBefore(a, b) == a.time < b.time
FileInBuildOrder ==
  \A i, j \in DOMAIN appended : i < j => BuiltBefore(appended[i], appended[j])

\* C14: whatever ticks and appends overlap, the log file holds whole lines
\* only, one per completed append, in the order in which the ticks built
\* them.
C14_WholeLinesInBuildOrder == WholeLines /\ FileInBuildOrder

\* a step that reports an error adds one report and leaves the file alone;
\* a tick polls the sensors as they are now and, if the poll succeeds, hands
\* its line to appendLogAsync, whatever failed before
C15_Step ==
  /\ opErrors' # opErrors =>
       /\ Len(opErrors') = Len(opErrors) + 1
       /\ SubSeq(opErrors', 1, Len(opErrors)) = opErrors
       /\ logFile' = logFile /\ appended' = appended
  /\ nTicks' # nTicks =>
       /\ nTicks' = nTicks + 1
       /\ IF CronPollFails(build, sensors)
            THEN /\ pendingAppends' = pendingAppends
                 /\ opErrors' = Append(opErrors, [kind |-> "cron error", tick |-> nTicks'])
            ELSE /\ pendingAppends' = pendingAppends \cup {CronLine(build, sensors, nTicks')}
                 /\ opErrors' = opErrors

\* C15: a failed poll or a failed append of a tick is reported with
\* console.error and nothing else: no error leaves the tick handler or the
\* append callback, the lines in the log stay as they are, and every later
\* tick is still run and does its own poll and append attempt.
C15_FailuresOnlyReported ==
  /\ [](~crashed /\ (nTicks < MaxTicks => ENABLED CronTick))
  /\ [][C15_Step]_vars
\* a tick's poll failed, an append failed, and the line of a tick later than
\* both is in the file
C15_Witness ==
  /\ \E i \in DOMAIN opErrors : opErrors[i].kind = "cron error"
  /\ \E i \in DOMAIN opErrors : opErrors[i].kind = "Failed to append log:"
  /\ \E k \in DOMAIN appended : \A i \in DOMAIN opErrors :
       opErrors[i].tick < appended[k].time

=============================================================================
